---- MODULE Spec2Model ----
(***************************************************************************)
(* Model of antigravity_auto_permit.py: the allowed-buttons reader         *)
(* (AllowedButtonsReader), the action policy with its cooldown             *)
(* (ButtonFinder.scan_and_act, click_at, send_keyboard, can_act), the      *)
(* template matcher (ButtonFinder.pil_template_match) and the polling loop *)
(* that drives them (PermissionMonitor.start_monitoring).                  *)
(*                                                                         *)
(* Text is modelled as sequences of one-character strings, so that strip,  *)
(* split, join, lower and substring containment are computed as Python     *)
(* computes them.  Time is counted in ticks of 0.5 s (one check_interval). *)
(***************************************************************************)
EXTENDS Integers, Sequences, FiniteSets, TLC

(***************************************************************************)
(* Text primitives (Python str methods used by the program)                *)
(***************************************************************************)

UpperChars == <<"A", "B", "C", "D", "E", "F", "G", "H", "I", "J", "K", "L", "M", "N", "O", "P", "Q", "R", "S", "T", "U", "V", "W", "X", "Y", "Z">>

LowerChars == <<"a", "b", "c", "d", "e", "f", "g", "h", "i", "j", "k", "l", "m", "n", "o", "p", "q", "r", "s", "t", "u", "v", "w", "x", "y", "z">>

\* the lower-case letter of each upper-case letter
LowerOf ==
  [c \in {UpperChars[k] : k \in 1..Len(UpperChars)} |->
     LowerChars[CHOOSE k \in 1..Len(UpperChars) : UpperChars[k] = c]]

\* str.lower() on one character
LowerChar(c) == IF c \in DOMAIN LowerOf THEN LowerOf[c] ELSE c

\* str.lower()
lower(s) == [k \in 1..Len(s) |-> LowerChar(s[k])]

\* the characters str.strip() removes
IsSpace(c) == c \in {" ", "\t", "\r", "\n"}

RECURSIVE lstrip(_)
lstrip(s) ==
  IF s # <<>> /\ IsSpace(Head(s)) THEN lstrip(Tail(s)) ELSE s

RECURSIVE rstrip(_)
rstrip(s) ==
  IF s # <<>> /\ IsSpace(s[Len(s)]) THEN rstrip(SubSeq(s, 1, Len(s) - 1)) ELSE s

\* str.strip()
strip(s) == rstrip(lstrip(s))

\* str.split(sep) for a one-character separator: "".split(",") is [""]
RECURSIVE split(_, _)
split(s, sep) ==
  IF \E k \in 1..Len(s) : s[k] = sep
  THEN LET k == CHOOSE j \in 1..Len(s) : s[j] = sep /\ \A h \in 1..(j - 1) : s[h] # sep
       IN  <<SubSeq(s, 1, k - 1)>> \o split(SubSeq(s, k + 1, Len(s)), sep)
  ELSE <<s>>

\* sep.join(parts)
RECURSIVE join(_, _)
join(parts, sep) ==
  IF parts = <<>> THEN <<>>
  ELSE IF Len(parts) = 1 THEN parts[1]
  ELSE parts[1] \o sep \o join(Tail(parts), sep)

\* str.startswith(prefix)
startswith(s, prefix) ==
  Len(s) >= Len(prefix) /\ SubSeq(s, 1, Len(prefix)) = prefix

\* the Python test `a in b` on strings: a is a substring of b
In(a, b) ==
  \E k \in 0..(Len(b) - Len(a)) : SubSeq(b, k + 1, k + Len(a)) = a

\* SelectLines with the comment test made on the line before it is stripped
RECURSIVE SelectLines_unstripped_test(_)
SelectLines_unstripped_test(ls) ==
  IF ls = <<>> THEN <<>>
  ELSE LET line == strip(Head(ls))
       IN  IF line # <<>> /\ ~startswith(Head(ls), <<"#">>)
           THEN <<line>> \o SelectLines_unstripped_test(Tail(ls))
           ELSE SelectLines_unstripped_test(Tail(ls))

\* the loop of read_file_text over the lines of the file: each line is
\* stripped and kept unless it is empty or a comment
RECURSIVE SelectLines(_)
SelectLines(ls) ==
  IF ls = <<>> THEN <<>>
  ELSE LET line == strip(Head(ls))
       IN  IF line # <<>> /\ ~startswith(line, <<"#">>)
           THEN <<line>> \o SelectLines(Tail(ls))
           ELSE SelectLines(Tail(ls))

(***************************************************************************)
(* Configuration (config.json, DEFAULT_CONFIG)                             *)
(***************************************************************************)

\* the configured button names, in configuration (dict) order: two of the
\* default buttons and one custom button whose name holds no approve or deny
\* token
ButtonNames ==
  << <<"r", "e", "j", "e", "c", "t">>,
     <<"d", "e", "n", "y", "_", "c", "o", "n", "f", "i", "r", "m", "_", "c", "o", "m", "b", "o">>,
     <<"r", "u", "n">> >>

NButtons == Len(ButtonNames)

Actions == {"approve", "deny", "skip"}

\* settings.cooldown: 2.0 s
Cooldown == 4

\* settings.check_interval: 0.5 s
CheckInterval == 1

\* settings.action_delay: 0.3 s, which is one tick when rounded up
ActionDelay == 1

\* chat_input_mode.refresh_interval: 2.0 s
RefreshInterval == 4

(***************************************************************************)
(* AllowedButtonsReader                                                    *)
(***************************************************************************)

\* self.aliases: what the user might type -> config button names
aliases ==
  [k \in { <<"a", "l", "t", " ", "+", " ", "e", "n", "t", "e", "r">>,
           <<"a", "l", "t", "+", "e", "n", "t", "e", "r">>,
           <<"e", "n", "t", "e", "r">>,
           <<"e", "s", "c", "a", "p", "e">>,
           <<"e", "s", "c">> } |->
     IF k \in { <<"a", "l", "t", " ", "+", " ", "e", "n", "t", "e", "r">>,
                <<"a", "l", "t", "+", "e", "n", "t", "e", "r">> }
     THEN { <<"a", "c", "c", "e", "p", "t">>,
            <<"a", "c", "c", "e", "p", "t", "_", "r", "e", "j", "e", "c", "t", "_", "c", "o", "m", "b", "o">> }
     ELSE IF k = <<"e", "n", "t", "e", "r">>
     THEN { <<"c", "o", "n", "f", "i", "r", "m">>,
            <<"d", "e", "n", "y", "_", "c", "o", "n", "f", "i", "r", "m", "_", "c", "o", "m", "b", "o">> }
     ELSE { <<"d", "e", "n", "y">>, <<"r", "e", "j", "e", "c", "t">> }]

\* read_file_text with the kept lines joined by a space
read_file_text_space_joined(content) ==
  join(SelectLines(split(content, "\n")), <<" ">>)

\* read_file_text on a readable file holding `content`
read_file_text(content) ==
  join(SelectLines(split(content, "\n")), <<",", " ">>)

\* ResolveNameIn with the configured names tried before the alias table
ResolveNameIn_names_first(name, names) ==
  IF \E b \in 1..Len(names) : In(name, lower(names[b])) \/ In(lower(names[b]), name)
  THEN LET b == CHOOSE j \in 1..Len(names) :
                  /\ In(name, lower(names[j])) \/ In(lower(names[j]), name)
                  /\ \A h \in 1..(j - 1) :
                       ~(In(name, lower(names[h])) \/ In(lower(names[h]), name))
       IN  {names[b]}
  ELSE IF name \in DOMAIN aliases THEN aliases[name]
  ELSE {name}

\* ResolveNameIn without the break: every configured name that overlaps the
\* token is added
ResolveNameIn_all_matches(name, names) ==
  IF name \in DOMAIN aliases THEN aliases[name]
  ELSE IF \E b \in 1..Len(names) : In(name, lower(names[b])) \/ In(lower(names[b]), name)
  THEN {names[b] : b \in {j \in 1..Len(names) :
                            In(name, lower(names[j])) \/ In(lower(names[j]), name)}}
  ELSE {name}

\* the for/else of parse_button_names: the names one cleaned token adds,
\* `names` being config["buttons"].keys() in dict order
ResolveNameIn(name, names) ==
  IF name \in DOMAIN aliases THEN aliases[name]
  ELSE IF \E b \in 1..Len(names) : In(name, lower(names[b])) \/ In(lower(names[b]), name)
  THEN LET b == CHOOSE j \in 1..Len(names) :
                  /\ In(name, lower(names[j])) \/ In(lower(names[j]), name)
                  /\ \A h \in 1..(j - 1) :
                       ~(In(name, lower(names[h])) \/ In(lower(names[h]), name))
       IN  {names[b]}
  ELSE {name}

\* the same with the configured buttons of the monitor
ResolveName(name) == ResolveNameIn(name, ButtonNames)

\* parse_button_names of a reader whose config holds the buttons `names`:
\* list(set(button_names)), held as a set
parse_button_names_in(text, names) ==
  IF text = <<>> THEN {}
  ELSE LET parts == split(text, ",")
           raw_names == [k \in 1..Len(parts) |-> lower(strip(parts[k]))]
       IN  UNION { ResolveNameIn(raw_names[k], names) :
                     k \in {j \in 1..Len(parts) : raw_names[j] # <<>>} }

\* parse_button_names of the monitor's reader
parse_button_names(text) == parse_button_names_in(text, ButtonNames)

\* refresh_due without the throttle: every call reads the file
refresh_due_always(t, last_read) == TRUE

\* the refresh test of get_allowed_buttons at time t
refresh_due(t, last_read) == t - last_read > RefreshInterval

\* read_file_text of a file that holds `content`; ok tells whether the file
\* exists and open() and read() succeed, otherwise the error is logged and ""
\* is returned
read_source(ok, content) ==
  IF ok THEN read_file_text(content) ELSE <<>>

\* get_allowed_buttons that keeps the cached list when the file cannot be read
get_allowed_buttons_keep_on_error(r, t, ok, content) ==
  IF refresh_due(t, r.last_read_time)
  THEN LET file_text == read_source(ok, content)
       IN  IF ok /\ file_text # r.last_file_content
           THEN [last_read_time |-> t,
                 cached_buttons |-> parse_button_names(file_text),
                 last_file_content |-> file_text]
           ELSE [r EXCEPT !.last_read_time = t]
  ELSE r

\* get_allowed_buttons that adds the names read to the cached list
get_allowed_buttons_merge(r, t, ok, content) ==
  IF refresh_due(t, r.last_read_time)
  THEN LET file_text == read_source(ok, content)
       IN  IF file_text # r.last_file_content
           THEN [last_read_time |-> t,
                 cached_buttons |-> r.cached_buttons \cup parse_button_names(file_text),
                 last_file_content |-> file_text]
           ELSE [r EXCEPT !.last_read_time = t]
  ELSE r

\* get_allowed_buttons of an enabled reader r at time t, the file holding
\* `content` and being readable or not (ok): the reader's fields after the
\* call (the call returns cached_buttons)
get_allowed_buttons(r, t, ok, content) ==
  IF refresh_due(t, r.last_read_time)
  THEN LET file_text == read_source(ok, content)
       IN  IF file_text # r.last_file_content
           THEN [last_read_time |-> t,
                 cached_buttons |-> parse_button_names(file_text),
                 last_file_content |-> file_text]
           ELSE [r EXCEPT !.last_read_time = t]
  ELSE r

\* the loop over the allowed list at the end of should_process_button
in_allowed_list(allowed, button_name) ==
  LET button_lower == lower(button_name)
  IN  \E allowed_btn \in allowed :
        In(allowed_btn, button_lower) \/ In(button_lower, allowed_btn)

\* should_process_button without its final `return False`: every button passes
\* a non-empty list
should_process_button_unfiltered(allowed, button_name, fallback) ==
  IF allowed = {} THEN fallback ELSE TRUE

\* should_process_button of an enabled reader whose get_allowed_buttons
\* returned `allowed`
should_process_button(allowed, button_name, fallback) ==
  IF allowed = {} THEN fallback
  ELSE in_allowed_list(allowed, button_name)

(***************************************************************************)
(* ButtonFinder                                                            *)
(***************************************************************************)

\* get_search_region returns None
NoRegion == <<>>

\* the point lies in the region (x, y, w, h)
InRegion(xy, r) ==
  /\ xy[1] >= r[1] /\ xy[1] < r[1] + r[3]
  /\ xy[2] >= r[2] /\ xy[2] < r[2] + r[4]

\* the points of `points` at which find_button can find a button: those in
\* the region when there is one, and any point of the screen when
\* get_search_region returned None (the full screen is searched)
find_candidates(region, points) ==
  IF region # NoRegion THEN {xy \in points : InRegion(xy, region)} ELSE points

\* can_act at time t
can_act(t, last_action) == t - last_action > Cooldown

\* the pixel positions <<x, y>> of an image of w x h pixels; an image is a
\* record of its size and its RGB pixels, px[<<x, y>>]
Pixels(w, h) == (0..(w - 1)) \X (0..(h - 1))

\* the scan step of pil_template_match, `step = 3`
ScanStride == 3

\* the tolerance of pil_template_match on each colour channel
Tolerance == 30

Abs(n) == IF n < 0 THEN -n ELSE n

Min(a, b) == IF a < b THEN a ELSE b

Max(a, b) == IF a > b THEN a ELSE b

\* the list range(0, limit, step)
range(limit, step) ==
  IF limit <= 0 THEN <<>>
  ELSE [k \in 1..((limit + step - 1) \div step) |-> step * (k - 1)]

\* the sample points of a template of tw x th pixels
sample_points(tw, th) ==
  LET sample_step == Max(1, Min(tw, th) \div 10)
      xs == range(tw, sample_step)
      ys == range(th, sample_step)
  IN  {<<xs[i], ys[j]>> : i \in 1..Len(xs), j \in 1..Len(ys)}

\* threshold = int(len(sample_points) * self.confidence), the confidence in
\* hundredths
match_threshold(n, confidence) == (n * confidence) \div 100

\* the pixels are similar: less than the tolerance apart on every channel
similar(tpixel, spixel) ==
  \A c \in 1..3 : Abs(tpixel[c] - spixel[c]) < Tolerance

\* the sample points that match in the window at (sx, sy); a point outside
\* the screen raises in screen_pixels[...] and is passed over
count_matches(screen, template, sx, sy) ==
  Cardinality({pt \in sample_points(template.w, template.h) :
                 /\ sx + pt[1] < screen.w
                 /\ sy + pt[2] < screen.h
                 /\ similar(template.px[pt], screen.px[<<sx + pt[1], sy + pt[2]>>])})

\* scan_windows with the window at the origin always visited
scan_windows_with_origin(sw, sh, tw, th) ==
  LET xs == range(Max(1, sw - tw), ScanStride)
      ys == range(Max(1, sh - th), ScanStride)
  IN  [k \in 1..(Len(xs) * Len(ys)) |->
         <<xs[((k - 1) % Len(xs)) + 1], ys[((k - 1) \div Len(xs)) + 1]>>]

\* the windows in the order the two for loops visit them: sy outer, sx inner
scan_windows(sw, sh, tw, th) ==
  LET xs == range(sw - tw, ScanStride)
      ys == range(sh - th, ScanStride)
  IN  [k \in 1..(Len(xs) * Len(ys)) |->
         <<xs[((k - 1) % Len(xs)) + 1], ys[((k - 1) \div Len(xs)) + 1]>>]

\* improves with the first window that reaches the threshold kept
improves_first_found(matches, threshold, best_matches) ==
  matches >= threshold /\ matches > 0 /\ best_matches = 0

\* improves with a window that only equals the best so far taken too
improves_or_ties(matches, threshold, best_matches) ==
  matches >= threshold /\ matches >= best_matches

\* the test `matches >= threshold and matches > best_matches`
improves(matches, threshold, best_matches) ==
  matches >= threshold /\ matches > best_matches

\* pil_template_match returns None
NoMatch == <<>>

\* the scan loop from the k-th window on; best holds best_match and
\* best_matches
RECURSIVE scan_from(_, _, _, _, _, _)
scan_from(screen, template, threshold, windows, k, best) ==
  IF k > Len(windows) THEN best
  ELSE LET sx == windows[k][1]
           sy == windows[k][2]
           matches == count_matches(screen, template, sx, sy)
       IN  scan_from(screen, template, threshold, windows, k + 1,
                     IF improves(matches, threshold, best.matches)
                     THEN [match |-> <<sx, sy, template.w, template.h>>, matches |-> matches]
                     ELSE best)

\* the locals best_match and best_matches when pil_template_match returns
scan_screen(screen, template, confidence) ==
  scan_from(screen, template,
            match_threshold(Cardinality(sample_points(template.w, template.h)), confidence),
            scan_windows(screen.w, screen.h, template.w, template.h), 1,
            [match |-> NoMatch, matches |-> 0])

\* pil_template_match: (x, y, width, height) of the best window, or None
pil_template_match(screen, template, confidence) ==
  scan_screen(screen, template, confidence).match

\* the point find_button returns for a match, the region being at (x, y)
match_center(x, y, match) ==
  <<x + match[1] + match[3] \div 2, y + match[2] + match[4] \div 2>>

NoEvent == <<>>

\* click_at called at time t: whether it clicked, the time it returns at,
\* last_action_time after it and the input events it performed
click_at(t, last_action, xy) ==
  IF ~can_act(t, last_action)
  THEN [ok |-> FALSE, now |-> t, last_action_time |-> last_action, events |-> NoEvent]
  ELSE [ok |-> TRUE, now |-> t + ActionDelay, last_action_time |-> t + ActionDelay,
        events |-> <<[type |-> "click", xy |-> xy, shortcut |-> ""]>>]

\* send_keyboard that writes last_action_time before it tests HAS_KEYBOARD
send_keyboard_stamps_first(t, last_action, shortcut, kb) ==
  IF ~can_act(t, last_action)
  THEN [ok |-> FALSE, now |-> t, last_action_time |-> last_action, events |-> NoEvent]
  ELSE IF kb
  THEN [ok |-> TRUE, now |-> t + ActionDelay, last_action_time |-> t + ActionDelay,
        events |-> <<[type |-> "key", xy |-> <<0, 0>>, shortcut |-> shortcut]>>]
  ELSE [ok |-> FALSE, now |-> t, last_action_time |-> t, events |-> NoEvent]

\* send_keyboard called at time t; kb is HAS_KEYBOARD
send_keyboard(t, last_action, shortcut, kb) ==
  IF ~can_act(t, last_action)
  THEN [ok |-> FALSE, now |-> t, last_action_time |-> last_action, events |-> NoEvent]
  ELSE IF kb
  THEN [ok |-> TRUE, now |-> t + ActionDelay, last_action_time |-> t + ActionDelay,
        events |-> <<[type |-> "key", xy |-> <<0, 0>>, shortcut |-> shortcut]>>]
  ELSE [ok |-> FALSE, now |-> t, last_action_time |-> last_action, events |-> NoEvent]

TokConfirm == <<"c", "o", "n", "f", "i", "r", "m">>

TokAccept == <<"a", "c", "c", "e", "p", "t">>

TokDenyConfirm == <<"d", "e", "n", "y", "_", "c", "o", "n", "f", "i", "r", "m">>

TokDeny == <<"d", "e", "n", "y">>

TokReject == <<"r", "e", "j", "e", "c", "t">>

NoDecision == [kind |-> "None"]

\* the word each kind of decision is written with in the returned string
KindWord ==
  [k \in {"APPROVED", "DENIED", "SKIPPED", "CLICKED"} |->
     CASE k = "APPROVED" -> <<"A", "P", "P", "R", "O", "V", "E", "D">>
       [] k = "DENIED" -> <<"D", "E", "N", "I", "E", "D">>
       [] k = "SKIPPED" -> <<"S", "K", "I", "P", "P", "E", "D">>
       [] k = "CLICKED" -> <<"C", "L", "I", "C", "K", "E", "D">>]

Decision(kind, name, from_chat) == [kind |-> kind, name |-> name, from_chat |-> from_chat]

\* chat_kind with the deny test made before the approve test
chat_kind_deny_first(btn_name) ==
  LET n == lower(btn_name)
  IN  IF In(TokDeny, n) \/ In(TokReject, n) THEN "DENIED"
      ELSE IF In(TokConfirm, n) \/ In(TokAccept, n) \/ In(TokDenyConfirm, n) THEN "APPROVED"
      ELSE "CLICKED"

\* the branch of scan_and_act taken when the allowed list is non-empty:
\* the kind of decision a click on the button gives
chat_kind(btn_name) ==
  LET n == lower(btn_name)
  IN  IF In(TokConfirm, n) \/ In(TokAccept, n) \/ In(TokDenyConfirm, n) THEN "APPROVED"
      ELSE IF In(TokDeny, n) \/ In(TokReject, n) THEN "DENIED"
      ELSE "CLICKED"

\* the outcome of one button once found, from the call's result c
Outcome(c, kind, name, from_chat) ==
  [result |-> IF c.ok THEN Decision(kind, name, from_chat) ELSE NoDecision,
   now |-> c.now, last_action_time |-> c.last_action_time,
   events |-> c.events, alerts |-> 0]

\* scan_and_act, allowed list non-empty: every kind is dispatched by click_at
chat_dispatch(btn_name, xy, t, last_action) ==
  Outcome(click_at(t, last_action, xy), chat_kind(btn_name), btn_name, TRUE)

\* config_dispatch that clicks for every approve and deny, whatever the name
config_dispatch_always_click(btn_name, action, xy, t, last_action, kb, sound) ==
  IF action = "approve"
  THEN Outcome(click_at(t, last_action, xy), "APPROVED", btn_name, FALSE)
  ELSE IF action = "deny"
  THEN Outcome(click_at(t, last_action, xy), "DENIED", btn_name, FALSE)
  ELSE IF action = "skip"
  THEN [result |-> Decision("SKIPPED", btn_name, FALSE), now |-> t,
        last_action_time |-> last_action, events |-> NoEvent,
        alerts |-> IF sound THEN 1 ELSE 0]
  ELSE [result |-> NoDecision, now |-> t, last_action_time |-> last_action,
        events |-> NoEvent, alerts |-> 0]

\* scan_and_act, "Use config.json action"
config_dispatch(btn_name, action, xy, t, last_action, kb, sound) ==
  LET n == lower(btn_name)
  IN  IF action = "approve"
      THEN IF In(TokConfirm, n) \/ In(TokAccept, n)
           THEN Outcome(click_at(t, last_action, xy), "APPROVED", btn_name, FALSE)
           ELSE Outcome(send_keyboard(t, last_action, "alt+enter", kb), "APPROVED", btn_name, FALSE)
      ELSE IF action = "deny"
      THEN IF In(TokDeny, n) \/ In(TokReject, n)
           THEN Outcome(click_at(t, last_action, xy), "DENIED", btn_name, FALSE)
           ELSE Outcome(send_keyboard(t, last_action, "escape", kb), "DENIED", btn_name, FALSE)
      ELSE IF action = "skip"
      THEN [result |-> Decision("SKIPPED", btn_name, FALSE), now |-> t,
            last_action_time |-> last_action, events |-> NoEvent,
            alerts |-> IF sound THEN 1 ELSE 0]
      ELSE [result |-> NoDecision, now |-> t, last_action_time |-> last_action,
            events |-> NoEvent, alerts |-> 0]

\* the string scan_and_act returns for a decision, f"APPROVED: {btn_name}"
\* with " (from chat)" after it on the allowed-list path; None is held as the
\* empty string, which the caller's `if result:` treats alike
result_string(res) ==
  IF res = NoDecision THEN <<>>
  ELSE KindWord[res.kind] \o <<":", " ">> \o res.name
         \o (IF res.from_chat
             THEN <<" ", "(", "f", "r", "o", "m", " ", "c", "h", "a", "t", ")">>
             ELSE <<>>)

\* use_allowed_list without the test that the list is non-empty
use_allowed_list_when_enabled(chat_mode, allowed) == chat_mode

\* the test `chat_reader and chat_reader.enabled and get_allowed_buttons()`
use_allowed_list(chat_mode, allowed) == chat_mode /\ allowed # {}

(***************************************************************************)
(* PermissionMonitor: the session statistics                               *)
(***************************************************************************)

\* self.stats as constructed
NoStats == [approved |-> 0, denied |-> 0, skipped |-> 0, clicked |-> 0]

\* the `if result:` block of start_monitoring: the counter is chosen by the
\* first of the four words found in the returned string
update_stats(stats, text) ==
  IF text = <<>> THEN stats
  ELSE IF In(KindWord["APPROVED"], text) THEN [stats EXCEPT !.approved = @ + 1]
  ELSE IF In(KindWord["DENIED"], text) THEN [stats EXCEPT !.denied = @ + 1]
  ELSE IF In(KindWord["SKIPPED"], text) THEN [stats EXCEPT !.skipped = @ + 1]
  ELSE IF In(KindWord["CLICKED"], text) THEN [stats EXCEPT !.clicked = @ + 1]
  ELSE stats

(***************************************************************************)
(* Bounds of the model                                                     *)
(***************************************************************************)

\* time.time() when the monitor is constructed (last_action_time and
\* last_read_time start at 0, far in the past)
Epoch == 5

\* ticks the model runs for after Epoch
Horizon == 7

MaxTime == Epoch + Horizon

\* the longest find_button takes, in ticks
MaxFindDelay == 1

\* screen points (x, y) a button can be found at
ScreenPoints == {<<140, 210>>, <<300, 40>>}

\* (left, top, width, height) of the Antigravity window when it is found
Window == <<100, 200, 400, 300>>

\* edits of allowed_buttons.txt by the user during a run
MaxEdits == 1

\* contents of allowed_buttons.txt
FileContents ==
  { <<>>,
    <<"#", " ", "c", "o", "m", "m", "e", "n", "t", "\n", "a", "c", "c", "e", "p", "t", "\n">>,
    <<"r", "u", "n", ",", ",", " ", "D", "e", "n", "y", "\n", "\n", " ", " ", "#", " ", "x", "\n", "r", "u", "n", "\n">>,
    <<"e", "s", "c", "\n">> }

\* tokens a user writes into allowed_buttons.txt: a name in capitals, a
\* name with blanks around it, three alias keys, an unknown word, a word
\* that begins with the comment sign and the name of a default button
TokenPool ==
  { <<"D", "e", "n", "y">>,
    <<" ", "r", "u", "n", " ">>,
    <<"e", "s", "c">>,
    <<"A", "l", "t", "+", "E", "n", "t", "e", "r">>,
    <<"a", "l", "t", " ", "+", " ", "e", "n", "t", "e", "r">>,
    <<"z", "z">>,
    <<"#", "r", "u", "n">>,
    <<"a", "c", "c", "e", "p", "t">> }

\* the most tokens written into one file
MaxTokens == 3

\* configured button names a reader is constructed with: those of the
\* monitor, a configuration with a custom button whose name holds an alias
\* key, and one in which two names overlap, the longer one first
ButtonSets ==
  << ButtonNames,
     << <<"e", "s", "c", "_", "c", "l", "o", "s", "e">>,
        <<"r", "e", "j", "e", "c", "t">>,
        <<"r", "u", "n">> >>,
     << <<"a", "c", "c", "e", "p", "t", "_", "r", "e", "j", "e", "c", "t", "_", "c", "o", "m", "b", "o">>,
        <<"a", "c", "c", "e", "p", "t">>,
        <<"D", "e", "n", "y">> >> >>

\* RGB pixels of the images
Black == <<0, 0, 0>>

Dark == <<25, 25, 25>>

White == <<255, 255, 255>>

Palette == {Black, Dark, White}

\* button images (templates): one white pixel, a 2 x 2 checkerboard, a
\* black pixel left of a white one, and a black bar of 3 x 2
Patterns ==
  { [w |-> 1, h |-> 1, px |-> [xy \in Pixels(1, 1) |-> White]],
    [w |-> 2, h |-> 2, px |-> [xy \in Pixels(2, 2) |-> IF xy[1] = xy[2] THEN White ELSE Black]],
    [w |-> 2, h |-> 1, px |-> [xy \in Pixels(2, 1) |-> IF xy[1] = 0 THEN Black ELSE White]],
    [w |-> 3, h |-> 2, px |-> [xy \in Pixels(3, 2) |-> Black]] }

\* settings.confidence, in hundredths
Confidences == {1, 50, 80, 100}

\* the largest screenshot, in pixels
MaxFrameW == 6

MaxFrameH == 5

\* button names of a config.json for the statistics: those of the monitor, a
\* name with a capital and a name in capitals that holds the word of a kind
StatNames ==
  {ButtonNames[k] : k \in 1..NButtons}
    \cup { <<"C", "o", "n", "f", "i", "r", "m">>,
           <<"D", "E", "N", "I", "E", "D", "_", "n", "o", "t", "e">> }

\* the cycles of the loop the statistics are followed for
MaxCycles == 4

\* configurations of the buttons' actions and of sound_alert_on_skip
Configs ==
  << [action |-> <<"skip", "approve", "approve">>, sound |-> TRUE],
     [action |-> <<"deny", "skip", "deny">>, sound |-> FALSE],
     [action |-> <<"approve", "deny", "skip">>, sound |-> TRUE] >>

(***************************************************************************)
(* State                                                                   *)
(***************************************************************************)

VARIABLES
  now,               \* time.time()
  file,              \* content of allowed_buttons.txt
  edits,             \* edits of the file so far
  cfg,               \* index of the configuration in Configs
  enabled,           \* chat_input_mode.enabled
  fallback_to_config,\* chat_input_mode.fallback_to_config
  has_keyboard,      \* HAS_KEYBOARD
  chat_reader,       \* AllowedButtonsReader: last_read_time, cached_buttons, last_file_content
  last_action_time,  \* ButtonFinder.last_action_time
  pc,                \* position of the monitoring loop
  btn,               \* index of the button the scan is at
  coords,            \* what find_button returned for that button
  result,            \* what the current scan_and_act returns
  events,            \* input events of the current pass
  alerts,            \* play_alert calls of the current pass
  decision_time,     \* time of the latest decision that was not None, or -1
  call_time,         \* time of the latest get_allowed_buttons call, or -1
  readable,          \* allowed_buttons.txt exists and can be read
  region,            \* what get_search_region returned in the current pass
  raised,            \* an input injection raised an error
  running,           \* PermissionMonitor.running
  signal_pc          \* where the loop was when SIGINT arrived, or ""

\* a reader on its own, reading back a file written from a list of tokens
VARIABLES
  tokens,            \* the tokens written, in the order written
  button_set,        \* index in ButtonSets of the reader's configured buttons
  parse_pc,          \* "idle", "written" or "read"
  src_lines,         \* the file with one token per line
  src_commas,        \* the file with the tokens on one line, comma-separated
  got_lines,         \* parse_button_names(read_file_text()) of src_lines
  got_commas         \* parse_button_names(read_file_text()) of src_commas

\* the template matcher on its own, run on a screenshot
VARIABLES
  template,          \* the button image
  confidence,        \* settings.confidence, in hundredths
  screen,            \* the screenshot
  placed_at,         \* where the template was drawn into the screenshot, or Nowhere
  also_at,           \* where it was drawn a second time, or Nowhere
  match_pc,          \* "idle", "captured" or "matched"
  best               \* best_match and best_matches of pil_template_match

\* the statistics of a session on their own, fed with the results of scans
VARIABLES
  stats,             \* PermissionMonitor.stats
  produced,          \* the decisions scan_and_act has returned so far, by kind
  cycles             \* the cycles of the loop so far

loop_vars ==
  <<now, file, edits, cfg, enabled, fallback_to_config, has_keyboard, chat_reader,
    last_action_time, pc, btn, coords, result, events, alerts, decision_time,
    call_time, readable, region, raised, running, signal_pc>>

\* the interrupt state of the loop
stop == <<running, signal_pc>>

parse_vars ==
  <<tokens, button_set, parse_pc, src_lines, src_commas, got_lines, got_commas>>

match_vars == <<template, confidence, screen, placed_at, also_at, match_pc, best>>

stat_vars == <<stats, produced, cycles>>

vars == <<loop_vars, parse_vars, match_vars, stat_vars>>

config == <<cfg, enabled, fallback_to_config, has_keyboard>>

NoCoords == <<0, 0>>

\* the monitor as constructed
LoopInit ==
  /\ now = Epoch
  /\ file \in FileContents
  /\ edits = 0
  /\ cfg \in 1..Len(Configs)
  /\ enabled \in BOOLEAN
  /\ fallback_to_config \in BOOLEAN
  /\ has_keyboard \in BOOLEAN
  /\ chat_reader = [last_read_time |-> 0, cached_buttons |-> {}, last_file_content |-> <<>>]
  /\ last_action_time = 0
  /\ pc = "loop"
  /\ btn = 1
  /\ coords = NoCoords
  /\ result = NoDecision
  /\ events = <<>>
  /\ alerts = 0
  /\ decision_time = -1
  /\ call_time = -1
  /\ readable = TRUE
  /\ region = NoRegion
  /\ raised = FALSE
  /\ running = TRUE
  /\ signal_pc = ""

\* no file has been written for the reader on its own
ParseIdle ==
  /\ tokens = <<>>
  /\ button_set = 1
  /\ parse_pc = "idle"
  /\ src_lines = <<>>
  /\ src_commas = <<>>
  /\ got_lines = {}
  /\ got_commas = {}

Nowhere == <<-1, -1>>

NoImage == [w |-> 0, h |-> 0, px |-> <<>>]

\* no screenshot has been taken for the matcher on its own
MatchIdle ==
  /\ template = NoImage
  /\ confidence = 80
  /\ screen = NoImage
  /\ placed_at = Nowhere
  /\ also_at = Nowhere
  /\ match_pc = "idle"
  /\ best = [match |-> NoMatch, matches |-> 0]

\* no cycle has been counted for the statistics on their own
StatsIdle ==
  /\ stats = NoStats
  /\ produced = [k \in DOMAIN KindWord |-> 0]
  /\ cycles = 0

Init == LoopInit /\ ParseIdle /\ MatchIdle /\ StatsIdle

(***************************************************************************)
(* The monitoring loop, PermissionMonitor.start_monitoring, and the scan   *)
(* it runs each cycle, ButtonFinder.scan_and_act                           *)
(***************************************************************************)

\* CallReader without the tests of chat_mode_enabled and self.enabled: the
\* reader is consulted whether or not chat_input_mode is enabled
CallReader_always ==
  /\ chat_reader' = get_allowed_buttons(chat_reader, now, readable, file)
  /\ call_time' = now

\* a call of chat_reader.get_allowed_buttons() at the current time; the
\* scan is handed the reader only when chat_input_mode is enabled
CallReader ==
  IF enabled
  THEN /\ chat_reader' = get_allowed_buttons(chat_reader, now, readable, file)
       /\ call_time' = now
  ELSE UNCHANGED <<chat_reader, call_time>>

\* after_button without the early return: the for loop goes on after a
\* decision
after_button_no_return(res, b) ==
  IF b < NButtons THEN [pc |-> "scan", btn |-> b + 1]
  ELSE [pc |-> "sleep", btn |-> b]

\* where scan_and_act goes after a button that gave `res`: a decision is
\* returned at once, otherwise the for loop goes on to the next button and
\* returns None after the last one
after_button(res, b) ==
  IF res # NoDecision THEN [pc |-> "sleep", btn |-> b]
  ELSE IF b < NButtons THEN [pc |-> "scan", btn |-> b + 1]
  ELSE [pc |-> "sleep", btn |-> b]

\* loop_continues that never sees the flag cleared
loop_continues_always(flag) == TRUE

\* the test of `while self.running`
loop_continues(flag) == flag

\* top of `while self.running`: the status display reads the allowed list,
\* then scan_and_act is entered
LoopTop ==
  /\ pc = "loop"
  /\ loop_continues(running)
  /\ CallReader
  /\ pc' = "scan"
  /\ btn' = 1
  /\ UNCHANGED <<now, file, edits, config, last_action_time, coords, result, events,
                 alerts, decision_time, readable, region, raised, stop>>
  /\ UNCHANGED <<parse_vars, match_vars, stat_vars>>

\* one button of the for loop of scan_and_act up to find_button: the
\* should_process_button test, then the search, which takes d ticks, is made
\* in the region r that get_search_region returns or on the full screen when
\* it returns None, and finds the button at a point or not at all
ScanButton ==
  /\ pc = "scan"
  /\ CallReader
  /\ IF enabled /\ ~should_process_button(chat_reader'.cached_buttons, ButtonNames[btn],
                                           fallback_to_config)
     THEN /\ pc' = after_button(NoDecision, btn).pc
          /\ btn' = after_button(NoDecision, btn).btn
          /\ UNCHANGED <<now, coords, region>>
     ELSE \E d \in 0..MaxFindDelay, r \in {NoRegion, Window} :
          \E found \in find_candidates(r, ScreenPoints) \cup {NoCoords} :
            /\ now + d <= MaxTime
            /\ now' = now + d
            /\ IF found = NoCoords
               THEN /\ pc' = after_button(NoDecision, btn).pc
                    /\ btn' = after_button(NoDecision, btn).btn
                    /\ coords' = NoCoords
                    /\ region' = NoRegion
               ELSE /\ pc' = "dispatch"
                    /\ btn' = btn
                    /\ coords' = found
                    /\ region' = r
  /\ UNCHANGED <<file, edits, config, last_action_time, result, events, alerts,
                 decision_time, readable, raised, stop>>
  /\ UNCHANGED <<parse_vars, match_vars, stat_vars>>

\* what scan_and_act does with a button it found, the allowed list being
\* `allowed`
dispatch(allowed) ==
  IF use_allowed_list(enabled, allowed)
  THEN chat_dispatch(ButtonNames[btn], coords, now, last_action_time)
  ELSE config_dispatch(ButtonNames[btn], Configs[cfg].action[btn], coords, now,
                       last_action_time, has_keyboard, Configs[cfg].sound)

\* the `if coords:` block of scan_and_act for the button found
Dispatch ==
  /\ pc = "dispatch"
  /\ CallReader
  /\ LET out == dispatch(chat_reader'.cached_buttons)
     IN  /\ out.now <= MaxTime
         /\ now' = out.now
         /\ last_action_time' = out.last_action_time
         /\ result' = out.result
         /\ events' = events \o out.events
         /\ alerts' = alerts + out.alerts
         /\ decision_time' = IF out.result # NoDecision THEN out.now ELSE decision_time
         /\ pc' = after_button(out.result, btn).pc
         /\ btn' = after_button(out.result, btn).btn
  /\ coords' = NoCoords
  /\ region' = NoRegion
  /\ UNCHANGED <<file, edits, config, readable, raised, stop>>
  /\ UNCHANGED <<parse_vars, match_vars, stat_vars>>

\* the rest of the cycle once scan_and_act has returned: the result is
\* consumed and the loop sleeps, time.sleep(self.check_interval)
Sleep ==
  /\ pc = "sleep"
  /\ now + CheckInterval <= MaxTime
  /\ now' = now + CheckInterval
  /\ pc' = "loop"
  /\ result' = NoDecision
  /\ events' = <<>>
  /\ alerts' = 0
  /\ UNCHANGED <<file, edits, config, chat_reader, last_action_time, btn, coords,
                 decision_time, call_time, readable, region, raised, stop>>
  /\ UNCHANGED <<parse_vars, match_vars, stat_vars>>

\* the user edits allowed_buttons.txt
EditFile ==
  /\ edits < MaxEdits
  /\ \E content \in FileContents \ {file} : file' = content
  /\ edits' = edits + 1
  /\ UNCHANGED <<now, config, chat_reader, last_action_time, pc, btn, coords, result,
                 events, alerts, decision_time, call_time, readable, region, raised, stop>>
  /\ UNCHANGED <<parse_vars, match_vars, stat_vars>>

Next ==
  \/ LoopTop
  \/ ScanButton
  \/ Dispatch
  \/ Sleep
  \/ EditFile

Spec == Init /\ [][Next]_vars

(***************************************************************************)
(* The monitoring loop with what can go wrong around it: an input          *)
(* injection that raises, allowed_buttons.txt unreadable, SIGINT           *)
(***************************************************************************)

\* the `if coords:` block when pyautogui.click or keyboard.press_and_release
\* raises: the call has waited action_delay, last_action_time is not yet
\* written, and the error leaves scan_and_act and the loop, whose try catches
\* KeyboardInterrupt only
DispatchRaises ==
  /\ pc = "dispatch"
  /\ CallReader
  /\ LET out == dispatch(chat_reader'.cached_buttons)
     IN  /\ out.events # NoEvent
         /\ out.now <= MaxTime
         /\ now' = out.now
  /\ raised' = TRUE
  /\ pc' = "crashed"
  /\ UNCHANGED <<file, edits, config, last_action_time, btn, coords, result, events,
                 alerts, decision_time, readable, region, stop>>
  /\ UNCHANGED <<parse_vars, match_vars, stat_vars>>

\* allowed_buttons.txt becomes unreadable (deleted, or locked by the program
\* that edits it) or readable again
LockFile ==
  /\ edits < MaxEdits
  /\ readable' = ~readable
  /\ edits' = edits + 1
  /\ UNCHANGED <<now, file, config, chat_reader, last_action_time, pc, btn, coords,
                 result, events, alerts, decision_time, call_time, region, raised, stop>>
  /\ UNCHANGED <<parse_vars, match_vars, stat_vars>>

\* signal_handler: SIGINT arrives while the loop is at pc
Stop ==
  /\ running
  /\ pc \notin {"done", "crashed"}
  /\ running' = FALSE
  /\ signal_pc' = pc
  /\ UNCHANGED <<now, file, edits, config, chat_reader, last_action_time, pc, btn,
                 coords, result, events, alerts, decision_time, call_time, readable,
                 region, raised>>
  /\ UNCHANGED <<parse_vars, match_vars, stat_vars>>

\* `while self.running` finds the flag cleared: the loop ends
LoopExit ==
  /\ pc = "loop"
  /\ ~loop_continues(running)
  /\ pc' = "done"
  /\ UNCHANGED <<now, file, edits, config, chat_reader, last_action_time, btn, coords,
                 result, events, alerts, decision_time, call_time, readable, region,
                 raised, stop>>
  /\ UNCHANGED <<parse_vars, match_vars, stat_vars>>

\* a monitor with the default actions for the three buttons, the keyboard
\* module present and allowed_buttons.txt holding "esc"
FaultsInit ==
  /\ Init
  /\ cfg = 1
  /\ has_keyboard
  /\ file = <<"e", "s", "c", "\n">>

FaultsNext ==
  \/ Next
  \/ DispatchRaises
  \/ LockFile
  \/ Stop
  \/ LoopExit

SpecFaults == FaultsInit /\ [][FaultsNext]_vars

(***************************************************************************)
(* Reading back a written allow-list: read_file_text and                   *)
(* parse_button_names applied to files written from a list of tokens       *)
(***************************************************************************)

\* the sequences without repetition of at most n elements of S
Arrangements(S, n) ==
  {a \in UNION {[1..k -> S] : k \in 0..n} :
     \A i, j \in 1..Len(a) : i # j => a[i] # a[j]}

\* no monitor runs: its variables stay at one state of LoopInit
LoopIdle ==
  /\ LoopInit
  /\ file = <<>>
  /\ cfg = 1
  /\ ~enabled
  /\ ~fallback_to_config
  /\ ~has_keyboard

ParseInit ==
  /\ LoopIdle
  /\ MatchIdle
  /\ StatsIdle
  /\ tokens \in Arrangements(TokenPool, MaxTokens)
  /\ button_set \in 1..Len(ButtonSets)
  /\ parse_pc = "idle"
  /\ src_lines = <<>>
  /\ src_commas = <<>>
  /\ got_lines = {}
  /\ got_commas = {}

\* the file with every token on a line of its own
one_per_line(toks) ==
  IF toks = <<>> THEN <<>> ELSE join(toks, <<"\n">>) \o <<"\n">>

\* the file with the tokens on one line, separated by commas
comma_separated(toks) ==
  IF toks = <<>> THEN <<>> ELSE join(toks, <<",">>) \o <<"\n">>

\* the user writes the tokens into allowed_buttons.txt, in the two layouts
WriteSource ==
  /\ parse_pc = "idle"
  /\ src_lines' = one_per_line(tokens)
  /\ src_commas' = comma_separated(tokens)
  /\ parse_pc' = "written"
  /\ UNCHANGED <<loop_vars, match_vars, stat_vars, tokens, button_set, got_lines, got_commas>>

\* the reader reads each file: the refresh of get_allowed_buttons,
\* parse_button_names(read_file_text())
ReadSource ==
  /\ parse_pc = "written"
  /\ got_lines' = parse_button_names_in(read_file_text(src_lines), ButtonSets[button_set])
  /\ got_commas' = parse_button_names_in(read_file_text(src_commas), ButtonSets[button_set])
  /\ parse_pc' = "read"
  /\ UNCHANGED <<loop_vars, match_vars, stat_vars, tokens, button_set, src_lines, src_commas>>

ParseNext ==
  \/ WriteSource
  \/ ReadSource

SpecParse == ParseInit /\ [][ParseNext]_vars

(***************************************************************************)
(* The template matcher on its own: pil_template_match run on screenshots  *)
(* of one background colour into which the template may have been drawn,   *)
(* once or twice                                                           *)
(***************************************************************************)

MatchInit ==
  /\ LoopIdle
  /\ ParseIdle
  /\ StatsIdle
  /\ template \in Patterns
  /\ confidence \in Confidences
  /\ screen = NoImage
  /\ placed_at = Nowhere
  /\ also_at = Nowhere
  /\ match_pc = "idle"
  /\ best = [match |-> NoMatch, matches |-> 0]

\* the pixel xy lies in the copy of img drawn at `at`
Covers(img, at, xy) ==
  /\ at # Nowhere
  /\ xy[1] >= at[1] /\ xy[1] < at[1] + img.w
  /\ xy[2] >= at[2] /\ xy[2] < at[2] + img.h

\* the copies of img drawn at p and at q do not overlap
Apart(img, p, q) ==
  \/ p[1] + img.w <= q[1] \/ q[1] + img.w <= p[1]
  \/ p[2] + img.h <= q[2] \/ q[2] + img.h <= p[2]

\* p lies before q in reading order
Before(p, q) == p[2] < q[2] \/ (p[2] = q[2] /\ p[1] < q[1])

\* the screenshot of w x h pixels of colour bg with img drawn at `at` and,
\* apart from it, at `at2`
Drawn(w, h, bg, img, at, at2) ==
  [w |-> w, h |-> h,
   px |-> [xy \in Pixels(w, h) |->
             IF Covers(img, at, xy) THEN img.px[<<xy[1] - at[1], xy[2] - at[2]>>]
             ELSE IF Covers(img, at2, xy) THEN img.px[<<xy[1] - at2[1], xy[2] - at2[2]>>]
             ELSE bg]]

\* pyautogui.screenshot(): the screen does not show the button, or shows it
\* whole, once or twice
Capture ==
  /\ match_pc = "idle"
  /\ \E w \in 1..MaxFrameW, h \in 1..MaxFrameH, bg \in Palette :
       LET places == (0..(w - template.w)) \X (0..(h - template.h))
       IN  \E at \in {Nowhere} \cup places :
           \E at2 \in {Nowhere}
                        \cup {q \in places : /\ at # Nowhere
                                              /\ Before(at, q)
                                              /\ Apart(template, at, q)} :
             /\ screen' = Drawn(w, h, bg, template, at, at2)
             /\ placed_at' = at
             /\ also_at' = at2
  /\ match_pc' = "captured"
  /\ UNCHANGED <<loop_vars, parse_vars, stat_vars, template, confidence, best>>

\* self.pil_template_match(screenshot, image_path)
Match ==
  /\ match_pc = "captured"
  /\ best' = scan_screen(screen, template, confidence)
  /\ match_pc' = "matched"
  /\ UNCHANGED <<loop_vars, parse_vars, stat_vars, template, confidence, screen, placed_at,
                 also_at>>

MatchNext ==
  \/ Capture
  \/ Match

SpecMatch == MatchInit /\ [][MatchNext]_vars

(***************************************************************************)
(* The session statistics on their own: the `if result:` block of           *)
(* start_monitoring applied to what scan_and_act returns cycle after cycle *)
(***************************************************************************)

StatsInit ==
  /\ LoopIdle
  /\ ParseIdle
  /\ MatchIdle
  /\ StatsIdle

\* what scan_and_act returns in a cycle in which it finds the button `name`,
\* configured `action`: through the allowed list (chat) or per the
\* configuration, inside the cooldown (blocked) or outside it
scan_result(name, action, chat, blocked) ==
  LET last_action == IF blocked THEN Epoch ELSE 0
  IN  IF chat
      THEN chat_dispatch(name, NoCoords, Epoch, last_action).result
      ELSE config_dispatch(name, action, NoCoords, Epoch, last_action, TRUE, FALSE).result

\* one cycle of the loop as the statistics see it: scan_and_act returns a
\* result (None when nothing was found) and the `if result:` block counts it
CountResult ==
  /\ cycles < MaxCycles
  /\ \E res \in {NoDecision}
                 \cup {scan_result(name, action, chat, blocked) :
                         name \in StatNames, action \in Actions,
                         chat \in BOOLEAN, blocked \in BOOLEAN} :
       /\ stats' = update_stats(stats, result_string(res))
       /\ produced' = IF res = NoDecision THEN produced
                      ELSE [produced EXCEPT ![res.kind] = @ + 1]
  /\ cycles' = cycles + 1
  /\ UNCHANGED <<loop_vars, parse_vars, match_vars>>

StatsNext == CountResult

SpecStats == StatsInit /\ [][StatsNext]_vars

(***************************************************************************)
(* Properties                                                              *)
(***************************************************************************)

\* a step of the `if coords:` block of scan_and_act
DispatchStep == pc = "dispatch" /\ pc' \notin {"dispatch", "crashed"}

\* a step of the for loop of scan_and_act that tests one button
ScanStep == pc = "scan" /\ (pc' # "scan" \/ btn' # btn)

\* a step that calls get_allowed_buttons of an enabled reader
CallStep ==
  /\ enabled
  /\ pc \in {"loop", "scan", "dispatch"}
  /\ pc' # "done"
  /\ pc' # pc \/ btn' # btn

\* the step produces a decision that is not None
Emits == DispatchStep /\ result' # NoDecision

\* C1: any two decisions that are not None are at least `cooldown` apart in
\* time, whatever the buttons and their configured actions.
C1_DecisionsCooldownApart ==
  [][(Emits /\ decision_time # -1) => now' - decision_time >= Cooldown]_vars

\* C2: while now - last_action_at < cooldown a scan produces no decision for
\* any button, whatever its match, its configured action and the allow-list.
C2_NoDecisionInCooldown ==
  [][(DispatchStep /\ now - last_action_time < Cooldown) => result' = NoDecision]_vars

\* C3: every decision that is not None sets last_action_at to the time of
\* that decision, for all four kinds (Skipped included).
C3_DecisionSetsLastAction ==
  [][Emits => last_action_time' = now']_vars

\* no entry of the list is a substring of the name or contains it, ignoring
\* case
NoOverlap(allowed, name) ==
  \A e \in allowed : ~In(lower(e), lower(name)) /\ ~In(lower(name), lower(e))

\* the step leaves the button alone: it is not dispatched, no decision, no
\* input event, no alert, no change of the cooldown
ButtonYieldsNothing ==
  /\ pc' # "dispatch"
  /\ result' = NoDecision
  /\ events' = <<>>
  /\ alerts' = 0
  /\ last_action_time' = last_action_time
  /\ now' = now

\* C4: with a non-empty allow-list of which no entry overlaps the button's
\* name, the button yields no decision: no click, no key-chord, no alert.
C4_IneligibleButtonYieldsNone ==
  [][(ScanStep /\ enabled /\ chat_reader'.cached_buttons # {}
        /\ NoOverlap(chat_reader'.cached_buttons, ButtonNames[btn]))
      => ButtonYieldsNothing]_vars

\* the scan has just passed over the first button, which no entry of the
\* non-empty allow-list overlaps, and is at the second
C4_Witness ==
  /\ enabled
  /\ pc = "scan"
  /\ btn = 2
  /\ call_time = now
  /\ chat_reader.cached_buttons # {}
  /\ NoOverlap(chat_reader.cached_buttons, ButtonNames[1])
  /\ \E e \in chat_reader.cached_buttons : ~NoOverlap({e}, ButtonNames[2])

HasApproveToken(name) == In(TokConfirm, lower(name)) \/ In(TokAccept, lower(name))

HasDenyToken(name) == In(TokDeny, lower(name)) \/ In(TokReject, lower(name))

\* the kind the name alone gives, the approve test first
KindByName(name) ==
  IF HasApproveToken(name) THEN "APPROVED"
  ELSE IF HasDenyToken(name) THEN "DENIED"
  ELSE "CLICKED"

ClickAt(xy) == <<[type |-> "click", xy |-> xy, shortcut |-> ""]>>

Chord(shortcut) == <<[type |-> "key", xy |-> <<0, 0>>, shortcut |-> shortcut]>>

\* C5: with a non-empty allow-list a detected button is dispatched by its
\* name only, whatever its configured action: Approved for a name with
\* "confirm" or "accept" (also when it holds a deny token too), else Denied
\* for a name with "deny" or "reject", else Clicked; always by a click at the
\* match, and whenever the cooldown has passed.
C5_AllowListDispatchByName ==
  [][(DispatchStep /\ enabled /\ chat_reader'.cached_buttons # {})
      => /\ result' # NoDecision
              => /\ result' = Decision(KindByName(ButtonNames[btn]), ButtonNames[btn], TRUE)
                 /\ events' = ClickAt(coords)
                 /\ alerts' = 0
         /\ now - last_action_time > Cooldown => result' # NoDecision
         /\ (HasApproveToken(ButtonNames[btn]) /\ HasDenyToken(ButtonNames[btn])
               /\ result' # NoDecision) => result'.kind = "APPROVED"]_vars

\* a button whose name holds both a deny and an approve token, configured
\* skip, was approved by a click through the allow-list
C5_Witness ==
  /\ pc = "sleep"
  /\ enabled
  /\ chat_reader.cached_buttons # {}
  /\ result # NoDecision
  /\ result.kind = "APPROVED"
  /\ result.from_chat
  /\ HasDenyToken(result.name)
  /\ Configs[cfg].action[btn] = "skip"
  /\ Len(events) = 1

\* C6: with the allow-list feature on and the list empty, fallback_to_config
\* false makes every button yield None, and fallback_to_config true makes a
\* detected button be dispatched per its configured action, exactly as with
\* the feature off.
C6_EmptyListFallback ==
  [][/\ (ScanStep /\ enabled /\ chat_reader'.cached_buttons = {} /\ ~fallback_to_config)
          => ButtonYieldsNothing
     /\ (DispatchStep /\ enabled /\ chat_reader'.cached_buttons = {} /\ fallback_to_config)
          => LET off == config_dispatch(ButtonNames[btn], Configs[cfg].action[btn], coords,
                                        now, last_action_time, has_keyboard,
                                        Configs[cfg].sound)
             IN  /\ result' = off.result
                 /\ events' = off.events
                 /\ alerts' = off.alerts
                 /\ last_action_time' = off.last_action_time
                 /\ now' = off.now]_vars

\* with the list empty and the fallback on, a button was approved per its
\* configured action
C6_Witness ==
  /\ pc = "sleep"
  /\ enabled
  /\ fallback_to_config
  /\ chat_reader.cached_buttons = {}
  /\ call_time = now - ActionDelay
  /\ result # NoDecision
  /\ result.kind = "APPROVED"
  /\ ~result.from_chat

\* the step dispatches per the configured action: no allow-list is active,
\* or the list is empty
ConfigPathStep == DispatchStep /\ ~(enabled /\ chat_reader'.cached_buttons # {})

\* the cooldown has passed when the step starts
OutsideCooldown == now - last_action_time > Cooldown

\* the decision and the way it is dispatched, as C7 states them; chord_ok
\* tells whether a key-chord can be sent and alert whether Skip alerts
C7_Expected(chord_ok, alert) ==
  LET name == ButtonNames[btn]
      action == Configs[cfg].action[btn]
  IN  /\ action = "approve" =>
           IF HasApproveToken(name)
           THEN result' = Decision("APPROVED", name, FALSE) /\ events' = ClickAt(coords)
           ELSE IF chord_ok
           THEN result' = Decision("APPROVED", name, FALSE) /\ events' = Chord("alt+enter")
           ELSE result' = NoDecision /\ events' = <<>>
      /\ action = "deny" =>
           IF HasDenyToken(name)
           THEN result' = Decision("DENIED", name, FALSE) /\ events' = ClickAt(coords)
           ELSE IF chord_ok
           THEN result' = Decision("DENIED", name, FALSE) /\ events' = Chord("escape")
           ELSE result' = NoDecision /\ events' = <<>>
      /\ action = "skip" =>
           /\ result' = Decision("SKIPPED", name, FALSE)
           /\ events' = <<>>
           /\ alerts' = IF alert THEN 1 ELSE 0

\* C7 as stated: on the configured-action path and outside cooldown, Approve
\* gives Approved by a click (name with "confirm" or "accept") or else by the
\* accept key-chord, Deny gives Denied by a click (name with "deny" or
\* "reject") or else by the cancel key-chord, Skip gives Skipped with an alert
\* and no click or key-chord.
C7_ConfigDispatch_AsStated ==
  [][(ConfigPathStep /\ OutsideCooldown) => C7_Expected(TRUE, TRUE)]_vars

\* C7 as amended: the same, except that a key-chord is sent only when the
\* keyboard module is available (without it the button yields no decision
\* and no input event) and that Skip plays the alert only when
\* sound_alert_on_skip is set.
C7_ConfigDispatch ==
  [][(ConfigPathStep /\ OutsideCooldown)
      => C7_Expected(has_keyboard, Configs[cfg].sound)]_vars

\* a button configured approve whose name holds no approve token was approved
\* by the accept key-chord
C7_Witness ==
  /\ pc = "sleep"
  /\ result # NoDecision
  /\ result.kind = "APPROVED"
  /\ ~result.from_chat
  /\ ~HasApproveToken(result.name)
  /\ events = Chord("alt+enter")

\* C8: a scan pass performs at most one input event and returns at most one
\* decision, that of the first button in configuration order that yields
\* one; once a button has yielded a decision no later button is examined.
C8_OneDecisionPerPass ==
  /\ Len(events) <= 1
  /\ alerts <= 1
  /\ (events # <<>> \/ alerts > 0) => result # NoDecision
  /\ result # NoDecision => pc = "sleep" /\ result.name = ButtonNames[btn]

\* the second button gave the decision of the pass, by one input event, and
\* the third was not examined
C8_Witness ==
  /\ pc = "sleep"
  /\ btn = 2
  /\ result # NoDecision
  /\ result.name = ButtonNames[2]
  /\ Len(events) = 1

\* what a call of get_allowed_buttons leaves alone when it serves the cached
\* list: the same list, no read of the file (last_read_time), no log (the
\* log is written when the text read differs from last_file_content)
ServedFromCache == chat_reader' = chat_reader

\* C9 as stated: of two calls of get_allowed_buttons less than
\* refresh_interval apart, the source unchanged (here: never edited), the
\* second returns the same list, reads nothing and logs nothing.
C9_RefreshIdempotent_AsStated ==
  [][(CallStep /\ call_time # -1 /\ now - call_time < RefreshInterval /\ edits = 0)
      => ServedFromCache]_vars

\* C9 as amended: the same for two calls of which the first read the source
\* (it holds whether or not the source was edited in between).
C9_RefreshIdempotent ==
  [][(CallStep /\ call_time # -1 /\ call_time = chat_reader.last_read_time
        /\ now - call_time < RefreshInterval)
      => ServedFromCache]_vars

\* the latest call came after the call that read the source, less than
\* refresh_interval after it, the source not edited, and the list read then
\* is still cached
C9_Witness ==
  /\ enabled
  /\ edits = 0
  /\ chat_reader.last_read_time >= Epoch
  /\ call_time > chat_reader.last_read_time
  /\ call_time - chat_reader.last_read_time < RefreshInterval
  /\ chat_reader.cached_buttons # {}

\* the lines of the file that are kept, each stripped
KeptLines(content) ==
  LET ls == split(content, "\n")
  IN  {strip(ls[k]) : k \in {j \in 1..Len(ls) : strip(ls[j]) # <<>> /\ Head(strip(ls[j])) # "#"}}

\* the tokens of one kept line: its comma-separated pieces, stripped and
\* lowered, the empty ones dropped
LineTokens(line) ==
  LET ps == split(line, ",")
  IN  {lower(strip(ps[k])) : k \in 1..Len(ps)} \ {<<>>}

\* the allow-list of a file, line by line
AllowListOf(content) ==
  UNION {ResolveName(t) : t \in UNION {LineTokens(l) : l \in KeptLines(content)}}

ScenarioFile ==
  <<"#", " ", "c", "o", "m", "m", "e", "n", "t", "\n", "a", "c", "c", "e", "p", "t", "\n">>

\* C10: a refresh that finds new content caches the names of the tokens of
\* the lines that are neither empty nor comments after trimming, split on
\* commas, empty tokens dropped, as a set; "# comment\naccept\n" gives
\* exactly {"accept"}.
C10_ParseAllowList ==
  [][(CallStep /\ chat_reader'.last_file_content # chat_reader.last_file_content)
      => /\ chat_reader'.cached_buttons = AllowListOf(file)
         /\ file = ScenarioFile => chat_reader'.cached_buttons = {TokAccept}]_vars

\* the scenario file was read and parsed
C10_Witness ==
  /\ enabled
  /\ file = ScenarioFile
  /\ edits = 0
  /\ chat_reader.last_read_time >= Epoch
  /\ chat_reader.last_file_content = TokAccept
  /\ chat_reader.cached_buttons = {TokAccept}

\* the token is read as a comment when it stands first on its line
BeginsWithHash(t) == strip(t) # <<>> /\ Head(strip(t)) = "#"

\* the token set after alias/substring resolution: every token trimmed and
\* lowered, then resolved
Resolved(toks, names) ==
  UNION {ResolveNameIn(lower(strip(toks[k])), names) :
           k \in {j \in 1..Len(toks) : strip(toks[j]) # <<>>}}

\* both files read back give the resolved token set
ReadsBack ==
  /\ got_lines = Resolved(tokens, ButtonSets[button_set])
  /\ got_commas = got_lines

\* C11 as stated: for every set of tokens, the source written with one token
\* per line reads back as exactly that token set after alias/substring
\* resolution, and as the same set as the source that lists the tokens
\* comma-separated on one line.
C11_RoundTrip_AsStated == parse_pc = "read" => ReadsBack

\* C11 as amended: the same for every set of tokens none of which begins
\* with "#".
C11_RoundTrip ==
  (parse_pc = "read" /\ \A k \in 1..Len(tokens) : ~BeginsWithHash(tokens[k])) => ReadsBack

\* a name in capitals, a name with blanks around it and an alias key were
\* written and read back as four names
C11_Witness ==
  /\ parse_pc = "read"
  /\ button_set = 1
  /\ tokens = << <<"D", "e", "n", "y">>, <<" ", "r", "u", "n", " ">>, <<"e", "s", "c">> >>
  /\ got_lines = {ButtonNames[2], ButtonNames[3], TokDeny, TokReject}
  /\ got_commas = got_lines

\* the alias table as C12 gives it: the names each key stands for
AliasNames(key) ==
  IF key \in { <<"a", "l", "t", "+", "e", "n", "t", "e", "r">>,
               <<"a", "l", "t", " ", "+", " ", "e", "n", "t", "e", "r">> }
  THEN {TokAccept, TokAccept \o <<"_">> \o TokReject \o <<"_", "c", "o", "m", "b", "o">>}
  ELSE IF key = <<"e", "n", "t", "e", "r">>
  THEN {TokConfirm, TokDenyConfirm \o <<"_", "c", "o", "m", "b", "o">>}
  ELSE IF key \in { <<"e", "s", "c">>, <<"e", "s", "c", "a", "p", "e">> }
  THEN {TokDeny, TokReject}
  ELSE {}

NoHash(t) == ~BeginsWithHash(t)

\* toks without its k-th element
Without(toks, k) == SubSeq(toks, 1, k - 1) \o SubSeq(toks, k + 1, Len(toks))

\* C12: a raw token that, trimmed and lowered, is a key of the alias table
\* adds all the names of that key to the allow-list and nothing else
\* ("alt+enter" gives accept and accept_reject_combo, "esc" gives deny and
\* reject), also when a configured button name contains the key: the table
\* is consulted before the configured names.  The rest of the list is what
\* the other tokens of the file give.
C12_AliasExpansion ==
  parse_pc = "read" =>
    \A k \in 1..Len(tokens) :
      LET key == lower(strip(tokens[k]))
      IN  AliasNames(key) # {} =>
            /\ AliasNames(key) \subseteq got_lines
            /\ got_lines = AliasNames(key)
                             \cup Resolved(SelectSeq(Without(tokens, k), NoHash),
                                           ButtonSets[button_set])
            /\ Len(tokens) = 1 => got_lines = AliasNames(key)

\* "esc" alone was read by a reader one of whose configured buttons is named
\* esc_close, and gave deny and reject
C12_Witness ==
  /\ parse_pc = "read"
  /\ button_set = 2
  /\ tokens = << <<"e", "s", "c">> >>
  /\ \E b \in 1..Len(ButtonSets[2]) : In(<<"e", "s", "c">>, ButtonSets[2][b])
  /\ got_lines = {TokDeny, TokReject}

\* the centre of the region the template was drawn into
TrueCenter == <<placed_at[1] + template.w \div 2, placed_at[2] + template.h \div 2>>

\* every sample point of the best window matched: score 1.0
FullScore == best.matches = Cardinality(sample_points(template.w, template.h))

\* C13: for every frame and pattern whose pixels stand verbatim in the frame
\* at an offset that keeps the pattern inside it, the matcher returns a match
\* (not None) with score 1.0 whose centre is within scan_stride - 1 pixels of
\* the centre of the placed region on each axis.
C13_PlacedPatternFound ==
  (match_pc = "matched" /\ placed_at # Nowhere) =>
    /\ best.match # NoMatch
    /\ FullScore
    /\ LET c == match_center(0, 0, best.match)
       IN  /\ Abs(c[1] - TrueCenter[1]) <= ScanStride - 1
           /\ Abs(c[2] - TrueCenter[2]) <= ScanStride - 1

\* the window origins the scan visits along an axis of free length `limit`
Visited(limit) == {o \in 0..(limit - 1) : o % ScanStride = 0}

\* no window the scan visits has a sample point within tolerance of the
\* template
NoContentOverlap ==
  \A sx \in Visited(screen.w - template.w), sy \in Visited(screen.h - template.h) :
    \A pt \in sample_points(template.w, template.h) :
      \E c \in 1..3 :
        Abs(template.px[pt][c] - screen.px[<<sx + pt[1], sy + pt[2]>>][c]) >= Tolerance

\* the number of matching sample points the confidence asks for
RequiredMatches ==
  (Cardinality(sample_points(template.w, template.h)) * confidence) \div 100

\* C14: for a frame with no content overlapping the pattern (no window the
\* scan visits has a sample point within tolerance of it) the matcher
\* returns None for every confidence above 0, also when the confidence is so
\* small that the required number of matching samples rounds to zero.
C14_NoOverlapNoMatch ==
  (match_pc = "matched" /\ confidence > 0 /\ NoContentOverlap) => best.match = NoMatch

\* a frame with windows to visit, none overlapping the pattern, was scanned
\* with a confidence that asks for zero matching samples
C14_Witness ==
  /\ match_pc = "matched"
  /\ confidence > 0
  /\ RequiredMatches = 0
  /\ Visited(screen.w - template.w) # {}
  /\ Visited(screen.h - template.h) # {}
  /\ NoContentOverlap
  /\ best.match = NoMatch

\* C15: when the pattern is wider than the frame or taller than the frame,
\* in one dimension alone or in both, the matcher returns None and raises no
\* error: the call returns.
C15_OversizedPatternNoMatch ==
  [][(match_pc = "captured" /\ (template.w > screen.w \/ template.h > screen.h))
      => (match_pc' = "matched" /\ best'.match = NoMatch)]_vars

\* the matcher returned None for a pattern wider but not taller than a frame
\* whose pixels are within tolerance of the pattern's
C15_Witness ==
  /\ match_pc = "matched"
  /\ template.w > screen.w
  /\ template.h <= screen.h
  /\ \A xy \in DOMAIN screen.px : xy[2] < template.h => similar(template.px[<<0, xy[2]>>], screen.px[xy])
  /\ best.match = NoMatch

\* the step in which a click or a key-chord raises
InjectionRaises == ~raised /\ raised'

\* C16: when an input injection (click or key-chord) raises an error, the
\* failure is absorbed: the poll loop keeps running, the pass going on to the
\* next button or to the sleep before the next cycle, and last_action_at is
\* set to the time of the failure, so that the next cycles fall inside the
\* cooldown.
C16_InjectionFailureAbsorbed ==
  [][InjectionRaises => (pc' \in {"scan", "sleep"} /\ last_action_time' = now')]_vars

\* the call is a refresh: more than refresh_interval after the last read
RefreshStep == CallStep /\ now - chat_reader.last_read_time > RefreshInterval

\* C17: when the allow-list source cannot be read at a refresh, the
\* allow-list of that refresh is the empty set, entries cached before being
\* dropped, and no error escapes; the next call more than refresh_interval
\* later reads the source again, and caches its content if it is readable by
\* then.
C17_UnreadableSourceEmptyList ==
  [][/\ (RefreshStep /\ ~readable)
          => /\ chat_reader' = [last_read_time |-> now, cached_buttons |-> {},
                                last_file_content |-> <<>>]
             /\ pc \in {"loop", "scan"} => (~raised' /\ pc' # "crashed")
     /\ RefreshStep
          => /\ chat_reader'.last_read_time = now
             /\ readable => chat_reader'.last_file_content = read_file_text(file)]_vars

\* a refresh found the source unreadable and left the list empty, after a
\* button had been clicked through the list read before (with the fallback
\* off only a listed button gives a decision)
C17_Witness ==
  /\ enabled
  /\ ~fallback_to_config
  /\ ~readable
  /\ decision_time # -1
  /\ chat_reader.last_read_time > decision_time
  /\ call_time = chat_reader.last_read_time
  /\ chat_reader.cached_buttons = {}
  /\ chat_reader.last_file_content = <<>>

\* C18: when no window or search region can be located in a cycle, the
\* cycle is skipped: no pattern is searched, so no button is found, and no
\* decision is produced and no input event or alert is made.
C18_NoRegionSkipsCycle ==
  [][/\ (ScanStep /\ pc' = "dispatch") => region' # NoRegion
     /\ (DispatchStep /\ region = NoRegion)
          => (result' = NoDecision /\ events' = <<>> /\ alerts' = 0)]_vars

\* SIGINT has arrived
Signalled == ~running

\* C19: after a stop signal no new detection cycle starts and the loop ends
\* at its next test of the flag; the cycle in progress when the signal
\* arrives runs to completion: a button found is dispatched as without the
\* signal, its input event included, and the loop ends nowhere but at its
\* top, which it reaches through the end of the cycle.
C19_StopAfterCurrentCycle ==
  [][/\ Signalled => ~(pc = "loop" /\ pc' = "scan")
     /\ (Signalled /\ pc = "loop" /\ pc' # pc) => pc' = "done"
     /\ pc' = "done" => (pc \in {"loop", "done"} /\ Signalled)
     /\ (Signalled /\ DispatchStep)
          => LET out == dispatch(chat_reader'.cached_buttons)
             IN  /\ result' = out.result
                 /\ events' = events \o out.events
                 /\ last_action_time' = out.last_action_time
     /\ (Signalled /\ pc = "sleep" /\ pc' # pc) => pc' = "loop"]_vars

\* the signal arrived when a button had been found and was about to be
\* dispatched; the button was clicked, the cycle slept, and the loop ended
C19_Witness ==
  /\ pc = "done"
  /\ signal_pc = "dispatch"
  /\ last_action_time = now - CheckInterval
  /\ decision_time = last_action_time

\* C20: a stop signal that arrives during the sleep between two cycles ends
\* the loop promptly: the loop exits without waiting for the rest of the
\* sleep to elapse.
C20_StopInterruptsSleep ==
  [][(pc = "sleep" /\ signal_pc = "sleep" /\ pc' # pc) => (pc' = "done" /\ now' = now)]_vars

\* C21: in every reachable state the session statistics equal the numbers
\* of decisions produced so far by kind: each decision that is not None adds
\* one to the counter of its own kind (Approved, Denied, Skipped, Clicked),
\* whatever the button name, and a None cycle changes no counter.
C21_StatsCountDecisions ==
  /\ stats.approved = produced["APPROVED"]
  /\ stats.denied = produced["DENIED"]
  /\ stats.skipped = produced["SKIPPED"]
  /\ stats.clicked = produced["CLICKED"]

\* the call reads the source: last_read_time is written
ReadsSource == chat_reader'.last_read_time # chat_reader.last_read_time

\* C22: a refresh call re-reads the allow-list source exactly when
\* now - last_read_at >= refresh_interval: at a difference equal to
\* refresh_interval the source is read, and for any smaller difference the
\* cached set is returned with no read and no log.
C22_RefreshAtInterval ==
  [][CallStep
      => /\ now - chat_reader.last_read_time >= RefreshInterval <=> ReadsSource
         /\ now - chat_reader.last_read_time < RefreshInterval => ServedFromCache]_vars

\* the text of the source differs from the text of the last read that
\* found a change
SourceChanged == read_file_text(file) # chat_reader.last_file_content

\* C23: after any refresh that finds changed source content the cached
\* allow-list is exactly the set parsed from the new content (no entry of the
\* previous set survives unless the new content yields it); after a refresh
\* that finds unchanged content, and between refreshes, the cached set is
\* unchanged.
C23_ReplacedNotMerged ==
  [][/\ (RefreshStep /\ SourceChanged)
          => /\ chat_reader'.cached_buttons = AllowListOf(file)
             /\ \A e \in chat_reader.cached_buttons :
                  e \in chat_reader'.cached_buttons => e \in AllowListOf(file)
     /\ (RefreshStep /\ ~SourceChanged)
          => chat_reader'.cached_buttons = chat_reader.cached_buttons
     /\ ~RefreshStep => chat_reader'.cached_buttons = chat_reader.cached_buttons]_vars

\* a button was clicked through the list, which therefore held an entry
\* that overlaps a configured button; the source was then edited to
\* "# comment\naccept\n" and a later refresh left exactly {"accept"}, which
\* overlaps no configured button: the entry of the previous list is gone
C23_Witness ==
  /\ enabled
  /\ ~fallback_to_config
  /\ edits = 1
  /\ file = ScenarioFile
  /\ decision_time # -1
  /\ chat_reader.last_read_time > decision_time
  /\ chat_reader.cached_buttons = {TokAccept}
  /\ \A b \in 1..NButtons : NoOverlap({TokAccept}, ButtonNames[b])

\* the configured names that overlap the token: the lowercase name contains
\* the token or is contained in it
Overlapping(key, names) ==
  {b \in 1..Len(names) : In(key, lower(names[b])) \/ In(lower(names[b]), key)}

\* what a raw token that is no alias resolves to, as C24 states it
FirstMatch(key, names) ==
  IF Overlapping(key, names) = {} THEN {key}
  ELSE {names[CHOOSE b \in Overlapping(key, names) :
                 \A c \in Overlapping(key, names) : b <= c]}

\* what a raw token adds to the allow-list
Adds(key, names) ==
  IF AliasNames(key) # {} THEN AliasNames(key) ELSE FirstMatch(key, names)

\* C24: a raw token that is not an alias resolves to exactly one configured
\* button name, the first in configuration order whose lowercase name
\* contains the token or is contained in it (first match wins, also when
\* several configured names overlap it); if no configured name overlaps, the
\* token is passed through verbatim.  The allow-list is what the raw tokens
\* of the file add: those of the lines that are not comments.
C24_FirstMatchWins ==
  parse_pc = "read" =>
    LET names == ButtonSets[button_set]
        key(k) == lower(strip(tokens[k]))
    IN  /\ got_lines = UNION {Adds(key(k), names) : k \in {j \in 1..Len(tokens) : NoHash(tokens[j])}}
        /\ (tokens # <<>> /\ NoHash(tokens[1]))
              => got_commas = UNION {Adds(key(k), names) : k \in 1..Len(tokens)}
        /\ (Len(tokens) = 1 /\ NoHash(tokens[1]) /\ AliasNames(key(1)) = {})
              => Cardinality(got_lines) = 1

\* "accept" alone was read by a reader whose configured names
\* accept_reject_combo and accept both overlap it, and gave the first only
C24_Witness ==
  /\ parse_pc = "read"
  /\ button_set = 3
  /\ tokens = << TokAccept >>
  /\ Cardinality(Overlapping(TokAccept, ButtonSets[3])) = 2
  /\ got_lines = {ButtonSets[3][1]}
  /\ got_lines # {TokAccept}

\* the number of sample points of the template
TotalSamples == Cardinality(sample_points(template.w, template.h))

\* C25: a window position qualifies as a match only if
\* matches / total_samples >= confidence_threshold: for every sample count
\* and threshold, no position whose ratio of matching samples is below the
\* threshold is returned, the threshold taken as a rational (8/10 of 7
\* samples asks for 6 matching samples).
C25_RatioAtLeastConfidence ==
  (match_pc = "matched" /\ best.match # NoMatch)
    => best.matches * 100 >= confidence * TotalSamples

\* the window positions of the scan: the origins it examines
Positions ==
  Visited(screen.w - template.w) \X Visited(screen.h - template.h)

\* the sample points of the template that the frame matches in the window
\* at origin o
MatchesAt(o) ==
  Cardinality({pt \in sample_points(template.w, template.h) :
                 \A c \in 1..3 :
                   Abs(template.px[pt][c] - screen.px[<<o[1] + pt[1], o[2] + pt[2]>>][c])
                     < Tolerance})

\* the position qualifies: its ratio of matching samples reaches the
\* confidence
Qualifies(o) == MatchesAt(o) * 100 >= confidence * TotalSamples

\* o comes before p in row-major scan order, or is p
ScannedBefore(o, p) == o[2] < p[2] \/ (o[2] = p[2] /\ o[1] <= p[1])

\* the origin of the window returned
BestOrigin == <<best.match[1], best.match[2]>>

\* C26: among the qualifying window positions the matcher returns the one
\* with the highest number of matching samples, and when several tie for the
\* highest, the first of them in row-major scan order (top to bottom, then
\* left to right).
C26_BestThenFirst ==
  (match_pc = "matched" /\ \E o \in Positions : Qualifies(o))
    => /\ best.match # NoMatch
       /\ BestOrigin \in Positions
       /\ Qualifies(BestOrigin)
       /\ best.matches = MatchesAt(BestOrigin)
       /\ \A o \in Positions :
            Qualifies(o) => /\ MatchesAt(o) <= MatchesAt(BestOrigin)
                            /\ MatchesAt(o) = MatchesAt(BestOrigin)
                                 => ScannedBefore(BestOrigin, o)

\* three positions qualified: one scanned first with fewer matching samples
\* and two that tied for the highest, of which the one in the upper row was
\* returned although the other lies further left
C26_Witness ==
  /\ match_pc = "matched"
  /\ best.match # NoMatch
  /\ \E o \in Positions :
       /\ Qualifies(o)
       /\ o # BestOrigin
       /\ ScannedBefore(o, BestOrigin)
       /\ MatchesAt(o) < MatchesAt(BestOrigin)
  /\ \E o \in Positions :
       /\ o # BestOrigin
       /\ MatchesAt(o) = MatchesAt(BestOrigin)
       /\ o[2] > BestOrigin[2]
       /\ o[1] < BestOrigin[1]

\* the offset lies on the stride grid
OnGrid(at) == at[1] % ScanStride = 0 /\ at[2] % ScanStride = 0

\* the pattern drawn at the offset touches the right or the bottom edge of
\* the frame
Flush(at) == at[1] = screen.w - template.w \/ at[2] = screen.h - template.h

\* C27: the scan examines every window origin on the stride grid at which
\* the pattern fits inside the frame, the last origin included, where the
\* window touches the right or bottom edge (origin = frame size - pattern
\* size): a pattern placed verbatim at a grid-aligned offset flush against
\* the right or bottom edge is found, and so is a pattern of exactly the
\* frame's size with identical content.
C27_EdgeOriginsExamined ==
  (match_pc = "matched" /\ placed_at # Nowhere /\ OnGrid(placed_at) /\ Flush(placed_at))
    => best.match # NoMatch

\* the button found can be acted on: it is dispatched by a click, by a
\* key-chord with the keyboard module present, or it is configured skip
Actionable ==
  LET name == ButtonNames[btn]
      action == Configs[cfg].action[btn]
  IN  \/ enabled /\ chat_reader'.cached_buttons # {}
      \/ has_keyboard
      \/ action = "skip"
      \/ action = "approve" /\ HasApproveToken(name)
      \/ action = "deny" /\ HasDenyToken(name)

\* C28: the policy leaves the Cooling state as soon as elapsed >= cooldown:
\* a detection of an eligible, actionable button at a time with
\* now - last_action_at equal to cooldown, or greater, emits a decision; it
\* is blocked only when now - last_action_at < cooldown.
C28_ActsAtCooldown ==
  [][(DispatchStep /\ Actionable /\ now - last_action_time >= Cooldown)
      => result' # NoDecision]_vars

\* C29: last_action_at changes only in a scan pass that returns a decision
\* that is not None: a pass that returns None (nothing found, button
\* ineligible, blocked by the cooldown, key-chord unavailable) leaves it
\* unchanged, and so does every refresh of the allow-list; its value never
\* decreases.
C29_LastActionFrame ==
  [][/\ last_action_time' # last_action_time => (DispatchStep /\ result' # NoDecision)
     /\ (pc' = "sleep" /\ pc # "sleep" /\ result' = NoDecision)
          => last_action_time' = last_action_time
     /\ (CallStep /\ ~DispatchStep) => last_action_time' = last_action_time
     /\ last_action_time' >= last_action_time]_vars

\* a pass that clicked wrote last_action_time; since then the allow-list was
\* read again and a pass has returned None, and last_action_time still holds
\* the time of that click
C29_Witness ==
  /\ enabled
  /\ pc = "sleep"
  /\ result = NoDecision
  /\ last_action_time > 0
  /\ decision_time = last_action_time
  /\ chat_reader.last_read_time > last_action_time
  /\ now - last_action_time <= Cooldown

\* the button is dispatched through the allow-list override path
OverrideStep == DispatchStep /\ result' # NoDecision /\ result'.from_chat

\* C30: within one scan pass the eligibility check and the choice of the
\* dispatch path for a button use the same allow-list, also when the source
\* is edited and a refresh falls due between the two: a button is never
\* dispatched through the allow-list override path unless its name matches
\* an entry of the allow-list in effect at dispatch.
C30_SameListInPass ==
  [][/\ (DispatchStep /\ enabled)
          => chat_reader'.cached_buttons = chat_reader.cached_buttons
     /\ OverrideStep => ~NoOverlap(chat_reader'.cached_buttons, ButtonNames[btn])]_vars

\* what the monitor does and decides: its state apart from the allow-list
\* source and the reader
Observable ==
  <<now, config, last_action_time, pc, btn, coords, result, events, alerts,
    decision_time, region, raised, stop>>

\* the outcome of the button found per its configured action, computed from
\* the button, the configuration and the cooldown alone
PerConfiguredAction ==
  config_dispatch(ButtonNames[btn], Configs[cfg].action[btn], coords, now,
                  last_action_time, has_keyboard, Configs[cfg].sound)

\* C31: when the allow-list feature is disabled the content of the
\* allow-list source has no influence: two runs that differ only in the
\* content of the source and its edits produce the same sequence of decisions
\* and input events, every button being dispatched per its configured action,
\* and the source is never read by the scan.  Stated step by step: an edit of
\* the source changes nothing the monitor does or decides; no step reads the
\* source; every button is searched for, none being passed over; and what a
\* step does is given by the button, the configuration and the cooldown, in
\* terms that do not hold the source or the reader.
C31_DisabledSourceNoInfluence ==
  [][~enabled
      => /\ chat_reader' = chat_reader
         /\ call_time' = call_time
         /\ file' # file => UNCHANGED Observable
         /\ (pc = "loop" /\ pc' # pc)
              => /\ pc' = "scan"
                 /\ btn' = 1
                 /\ UNCHANGED <<now, last_action_time, result, events, alerts, decision_time>>
         /\ ScanStep
              => /\ now' - now \in 0..MaxFindDelay
                 /\ \/ pc' = "dispatch" /\ btn' = btn /\ coords' \in ScreenPoints
                    \/ /\ coords' = NoCoords
                       /\ IF btn < NButtons THEN pc' = "scan" /\ btn' = btn + 1
                          ELSE pc' = "sleep" /\ btn' = btn
                 /\ UNCHANGED <<last_action_time, result, events, alerts, decision_time>>
         /\ DispatchStep
              => /\ result' = PerConfiguredAction.result
                 /\ events' = events \o PerConfiguredAction.events
                 /\ alerts' = alerts + PerConfiguredAction.alerts
                 /\ last_action_time' = PerConfiguredAction.last_action_time
                 /\ now' = PerConfiguredAction.now
                 /\ result' # NoDecision => ~result'.from_chat]_vars

\* with the feature disabled the source was edited to "# comment\naccept\n",
\* whose list {"accept"} would make every button ineligible, and a button
\* was dispatched per its configured action by an input event; the reader
\* has read nothing
C31_Witness ==
  /\ ~enabled
  /\ edits = 1
  /\ file = ScenarioFile
  /\ \A b \in 1..NButtons : NoOverlap(AllowListOf(file), ButtonNames[b])
  /\ pc = "sleep"
  /\ result # NoDecision
  /\ ~result.from_chat
  /\ Len(events) = 1
  /\ chat_reader = [last_read_time |-> 0, cached_buttons |-> {}, last_file_content |-> <<>>]
  /\ call_time = -1

====
